---- MODULE Spec2Model ----
(***************************************************************************)
(* Model of Assistant_Main_Code.py: a command-line chat client.  main()    *)
(* loads the credential (configure_genai), resolves a model name           *)
(* (choose_model), and runs the read / send / print loop (run_chat_loop),  *)
(* formatting each reply with to_markdown.                                 *)
(*                                                                         *)
(* Text is modelled as a sequence of one-character strings.  The bullet    *)
(* glyph U+2022 is one character, written Bullet.                          *)
(*                                                                         *)
(* Spec is a run of main().  SpecChoose is one call of choose_model and    *)
(* SpecFmt one call of to_markdown, each on every input within the bounds. *)
(* Signals are modelled from the moment the loop runs, where the code      *)
(* handles them (line 63); a send_message call is a step of its own, so    *)
(* that a send in flight is a state.                                       *)
(***************************************************************************)
EXTENDS Integers, Sequences, FiniteSets, TLC

VARIABLES
    pc,          \* position of main(): start, configured, resolved, awaiting, dispatching, done
    environ,     \* os.environ.get("GOOGLE_API_KEY"): [present, value]
    api_key,     \* the key genai.configure registered: [set, value]
    listing,     \* what genai.list_models() returned: [state, names]
    model_name,  \* the name choose_model returned ("" before)
    session,     \* the chat session: [open, model, instruction, history]
    calls,       \* the SDK calls made so far, in order
    inputs,      \* the lines input() has returned so far, in order
    sends,       \* the send_message calls so far: [msg, outcome, raw]
    stdout,      \* what was printed on standard output: [kind, text]
    stderr,      \* what was printed on the diagnostic stream: [kind, text]
    exitStatus,  \* "none" while running, then "0", "1" or "SIGINT"
    ended_by,    \* what ended the process ("" while running)
    cm_pc, cm_preferred, cm_available, cm_result,   \* one call of choose_model
    fmt_pc, fmt_text, fmt_replaced, fmt_out         \* one call of to_markdown

mainVars == <<pc, environ, api_key, listing, model_name, session, calls,
              inputs, sends, stdout, stderr, exitStatus, ended_by>>
cmVars   == <<cm_pc, cm_preferred, cm_available, cm_result>>
fmtVars  == <<fmt_pc, fmt_text, fmt_replaced, fmt_out>>
vars     == <<mainVars, cmVars, fmtVars>>

-----------------------------------------------------------------------------
(* Bounds                                                                  *)

MaxReads == 3       \* lines read by one run of the loop
MaxModels == 3      \* length of a provider listing given to choose_model
MaxTextLen == 4     \* length of a text given to to_markdown

-----------------------------------------------------------------------------
(* Text helpers                                                            *)

Bullet == "U+2022"
NL == "\n"
CR == "\r"

Range(s) == {s[i] : i \in DOMAIN s}

RECURSIVE Flatten(_)
Flatten(ss) == IF ss = <<>> THEN <<>> ELSE Head(ss) \o Flatten(Tail(ss))

\* str.replace(old, new) for a one-character old.
str_replace(text, old, new) ==
    Flatten([i \in DOMAIN text |-> IF text[i] = old THEN new ELSE <<text[i]>>])

\* The line boundaries str.splitlines knows, among the modelled characters.
LineBreaks == {NL, CR}

\* Length of the first line of a non-empty text, line end included
\* ("\r\n" is one line end).
FirstLineLen(s) ==
    LET ends == {i \in DOMAIN s : s[i] \in LineBreaks}
    IN  IF ends = {} THEN Len(s)
        ELSE LET i == CHOOSE j \in ends : \A k \in ends : j <= k
             IN  IF s[i] = CR /\ i < Len(s) /\ s[i + 1] = NL THEN i + 1 ELSE i

\* str.splitlines(keepends=True)
RECURSIVE splitlines(_)
splitlines(s) ==
    IF s = <<>> THEN <<>>
    ELSE LET n == FirstLineLen(s)
         IN  <<SubSeq(s, 1, n)>> \o splitlines(SubSeq(s, n + 1, Len(s)))

Whitespace == {" ", "\t", NL, CR}

\* str.strip()
RECURSIVE lstrip(_)
lstrip(s) == IF s # <<>> /\ Head(s) \in Whitespace THEN lstrip(Tail(s)) ELSE s

RECURSIVE rstrip(_)
rstrip(s) ==
    IF s # <<>> /\ s[Len(s)] \in Whitespace THEN rstrip(SubSeq(s, 1, Len(s) - 1)) ELSE s

strip(s) == rstrip(lstrip(s))

\* str.lower(), on the letters the modelled lines use.
lower_char(c) ==
    CASE c = "E" -> "e" [] c = "X" -> "x" [] c = "I" -> "i" [] c = "T" -> "t"
      [] c = "Q" -> "q" [] c = "U" -> "u" [] c = "H" -> "h"
      [] OTHER -> c

lower_keeps_case(s) == s

lower(s) == [i \in DOMAIN s |-> lower_char(s[i])]

\* textwrap.indent's default predicate: the line has a non-whitespace character.
default_predicate(line) == strip(line) # <<>>

\* to_markdown's predicate, lambda _: True
always_true(line) == TRUE

indent_skipping_blank_lines(text, prefix) ==
    LET lines == splitlines(text)
    IN  Flatten([i \in DOMAIN lines |->
                    IF default_predicate(lines[i]) THEN prefix \o lines[i] ELSE lines[i]])

\* textwrap.indent(text, prefix, predicate=lambda _: True)
indent(text, prefix) ==
    LET lines == splitlines(text)
    IN  Flatten([i \in DOMAIN lines |->
                    IF always_true(lines[i]) THEN prefix \o lines[i] ELSE lines[i]])

-----------------------------------------------------------------------------
(* to_markdown                                                             *)

replace_bullets_one_blank(text) == str_replace(text, Bullet, <<" ", "*">>)

\* text.replace(bullet, "  *")
replace_bullets(text) == str_replace(text, Bullet, <<" ", " ", "*">>)

to_markdown(text) == indent(replace_bullets(text), <<">", " ">>)

-----------------------------------------------------------------------------
(* choose_model                                                            *)

DEFAULT_PREFERRED == "gemini-flash-latest"

FALLBACKS == <<"gemini-2.5-flash", "gemini-2.5-flash-lite", "gemini-flash-latest">>

\* What genai.list_models() does: it returns the names, or it raises.
ListingOk(names) == [state |-> "ok", names |-> names]
ListingFailed == [state |-> "failed", names |-> <<>>]
NotListed == [state |-> "unqueried", names |-> <<>>]

\* "\n".join(available)
RECURSIVE join_lines(_)
join_lines(names) ==
    IF names = <<>> THEN <<>>
    ELSE IF Len(names) = 1 THEN names
    ELSE <<Head(names), NL>> \o join_lines(Tail(names))

Returned(name) == [kind |-> "ok", name |-> name, msg |-> <<>>]
Raised(kind, msg) == [kind |-> kind, name |-> "", msg |-> msg]
NoResult == [kind |-> "none", name |-> "", msg |-> <<>>]

list_failed_message == <<"Failed to list models: ", "<provider error>">>

unavailable_message_without_names(preferred, available) ==
    <<"Preferred model '", preferred, "' not available. Models you can access:\n">>

unavailable_message(preferred, available) ==
    <<"Preferred model '", preferred, "' not available. Models you can access:\n">>
        \o join_lines(available)

\* The first candidate that is in the available list, or 0.
first_candidate(available) ==
    LET hits == {i \in DOMAIN FALLBACKS : FALLBACKS[i] \in Range(available)}
    IN  IF hits = {} THEN 0 ELSE CHOOSE i \in hits : \A j \in hits : i <= j
\* scans the listing instead of the candidates
choose_model_first_listed(preferred, provider) ==
    IF provider.state # "ok" THEN Raised("list_failed", list_failed_message)
    ELSE LET available == provider.names
             hits == {i \in DOMAIN available : available[i] \in Range(FALLBACKS)}
         IN  IF preferred \in Range(available) THEN Returned(preferred)
             ELSE IF hits # {}
                  THEN Returned(available[CHOOSE i \in hits : \A j \in hits : i <= j])
             ELSE Raised("unavailable", unavailable_message(preferred, available))

\* returns preferred when nothing matched
choose_model_preferred_anyway(preferred, provider) ==
    IF provider.state # "ok" THEN Raised("list_failed", list_failed_message)
    ELSE LET available == provider.names
             c == first_candidate(available)
         IN  IF preferred \in Range(available) THEN Returned(preferred)
             ELSE IF c # 0 THEN Returned(FALLBACKS[c])
             ELSE Returned(preferred)

choose_model_fallbacks_first(preferred, provider) ==
    IF provider.state # "ok" THEN Raised("list_failed", list_failed_message)
    ELSE LET available == provider.names
             c == first_candidate(available)
         IN  IF c # 0 THEN Returned(FALLBACKS[c])
             ELSE IF preferred \in Range(available) THEN Returned(preferred)
             ELSE Raised("unavailable", unavailable_message(preferred, available))

choose_model(preferred, provider) ==
    IF provider.state # "ok" THEN Raised("list_failed", list_failed_message)
    ELSE LET available == provider.names
             c == first_candidate(available)
         IN  IF preferred \in Range(available) THEN Returned(preferred)
             ELSE IF c # 0 THEN Returned(FALLBACKS[c])
             ELSE Raised("unavailable", unavailable_message(preferred, available))

-----------------------------------------------------------------------------
(* Inputs                                                                  *)

ModelNames ==
    {"gemini-flash-latest", "gemini-2.5-flash", "gemini-2.5-flash-lite",
     "models/gemini-flash-latest", "gemini-pro"}

RECURSIVE SeqsUpTo(_, _)
SeqsUpTo(S, n) ==
    IF n = 0 THEN {<<>>}
    ELSE LET shorter == SeqsUpTo(S, n - 1)
         IN  shorter \cup {Append(t, x) : t \in shorter, x \in S}

ProviderOutcomes == {ListingOk(ns) : ns \in SeqsUpTo(ModelNames, MaxModels)} \cup {ListingFailed}

TextAlphabet == {Bullet, "a", " ", NL}

SampleReply == <<Bullet, " ", "a", NL, Bullet, " ", "b">>

Texts == SeqsUpTo(TextAlphabet, MaxTextLen) \cup {SampleReply}

-----------------------------------------------------------------------------
(* The program before main() runs                                          *)

NoSession == [open |-> FALSE, model |-> "", instruction |-> "", history |-> <<>>]

MainStart(env) ==
    /\ pc = "start"
    /\ environ = env
    /\ api_key = [set |-> FALSE, value |-> <<>>]
    /\ listing = NotListed
    /\ model_name = ""
    /\ session = NoSession
    /\ calls = <<>>
    /\ inputs = <<>>
    /\ sends = <<>>
    /\ stdout = <<>>
    /\ stderr = <<>>
    /\ exitStatus = "none"
    /\ ended_by = ""

ChooseIdle ==
    /\ cm_pc = "idle"
    /\ cm_preferred = ""
    /\ cm_available = NotListed
    /\ cm_result = NoResult

FmtIdle ==
    /\ fmt_pc = "idle"
    /\ fmt_text = <<>>
    /\ fmt_replaced = <<>>
    /\ fmt_out = <<>>

-----------------------------------------------------------------------------
(* One call of choose_model, on any preferred name and provider listing    *)

InitChoose ==
    /\ MainStart([present |-> FALSE, value |-> <<>>])
    /\ FmtIdle
    /\ cm_pc = "call"
    /\ cm_preferred \in ModelNames
    /\ cm_available \in ProviderOutcomes
    /\ cm_result = NoResult

CallChooseModel ==
    /\ cm_pc = "call"
    /\ cm_result' = choose_model(cm_preferred, cm_available)
    /\ cm_pc' = "returned"
    /\ UNCHANGED <<cm_preferred, cm_available, mainVars, fmtVars>>

NextChoose == CallChooseModel

SpecChoose == InitChoose /\ [][NextChoose]_vars

-----------------------------------------------------------------------------
(* One call of to_markdown, on any text                                    *)

InitFmt ==
    /\ MainStart([present |-> FALSE, value |-> <<>>])
    /\ ChooseIdle
    /\ fmt_pc = "call"
    /\ fmt_text \in Texts
    /\ fmt_replaced = <<>>
    /\ fmt_out = <<>>

CallToMarkdown ==
    /\ fmt_pc = "call"
    /\ fmt_replaced' = replace_bullets(fmt_text)
    /\ fmt_out' = to_markdown(fmt_text)
    /\ fmt_pc' = "returned"
    /\ UNCHANGED <<fmt_text, mainVars, cmVars>>

NextFmt == CallToMarkdown

SpecFmt == InitFmt /\ [][NextFmt]_vars

-----------------------------------------------------------------------------
(* main(): what the run meets                                              *)

\* Values of GOOGLE_API_KEY: unset, empty, blank, a key.
Environments ==
    {[present |-> FALSE, value |-> <<>>],
     [present |-> TRUE, value |-> <<>>],
     [present |-> TRUE, value |-> <<" ">>],
     [present |-> TRUE, value |-> <<"k">>]}

\* What the provider may answer to list_models in a run of main().
ProviderListings ==
    {ListingFailed,
     ListingOk(<<>>),
     ListingOk(<<"gemini-pro", "models/gemini-flash-latest">>),
     ListingOk(<<"gemini-pro", "gemini-flash-latest", "gemini-2.5-flash">>),
     ListingOk(<<"gemini-2.5-flash-lite", "gemini-pro", "gemini-2.5-flash">>),
     ListingOk(<<"gemini-2.5-flash-lite">>)}

\* Lines input() may return (without the line end).
InputLines ==
    {<<>>,
     <<" ", " ">>,
     <<"e", "x", "i", "t">>,
     <<"E", "x", "i", "t">>,
     <<"q", "u", "i", "t">>,
     <<" ", " ", "Q", "U", "I", "T", " ", " ">>,
     <<" ", "h", "i", " ">>,
     <<"e", "x", "i", "t", " ", "x">>}

\* Reply texts the provider may send.
RawReplies == {SampleReply, <<"a">>}

PERSONA ==
    "You are an expert AI assistant specializing in Indian law. Explain complex legal topics in a clear, simple, and detailed manner for a general audience."

EXIT_WORDS == {<<"q", "u", "i", "t">>, <<"e", "x", "i", "t">>}

Out(kind) == [kind |-> kind, text |-> <<>>]
OutText(kind, text) == [kind |-> kind, text |-> text]

SetLast(s, x) == [s EXCEPT ![Len(s)] = x]

Exit(status, cause) ==
    /\ pc' = "done"
    /\ exitStatus' = status
    /\ ended_by' = cause

-----------------------------------------------------------------------------
(* configure_genai and its call in main()                                  *)

\* "not api_key": None and the empty string are false.
falsy_only_when_unset(v) == ~v.present

falsy(v) == ~v.present \/ Len(v.value) = 0

Main_configure ==
    /\ pc = "start"
    /\ IF falsy(environ)
         THEN /\ stderr' = Append(stderr, OutText("config_error", <<"GOOGLE_API_KEY not set">>))
              /\ Exit("1", "config_error")
              /\ UNCHANGED <<api_key, calls>>
         ELSE /\ api_key' = [set |-> TRUE, value |-> environ.value]
              /\ calls' = Append(calls, "configure")
              /\ pc' = "configured"
              /\ UNCHANGED <<stderr, exitStatus, ended_by>>
    /\ UNCHANGED <<environ, listing, model_name, session, inputs, sends, stdout,
                   cmVars, fmtVars>>

-----------------------------------------------------------------------------
(* choose_model(preferred="gemini-flash-latest") and its call in main()    *)

Main_choose_model_keeps_going ==
    /\ pc = "configured"
    /\ \E provider \in ProviderListings :
         LET r == choose_model(DEFAULT_PREFERRED, provider)
         IN  /\ listing' = provider
             /\ calls' = Append(calls, "list_models")
             /\ model_name' = IF r.kind = "ok" THEN r.name ELSE DEFAULT_PREFERRED
             /\ pc' = "resolved"
             /\ UNCHANGED <<stderr, exitStatus, ended_by>>
    /\ UNCHANGED <<environ, api_key, session, inputs, sends, stdout, cmVars, fmtVars>>

Main_choose_model ==
    /\ pc = "configured"
    /\ \E provider \in ProviderListings :
         LET r == choose_model(DEFAULT_PREFERRED, provider)
         IN  /\ listing' = provider
             /\ calls' = Append(calls, "list_models")
             /\ IF r.kind = "ok"
                  THEN /\ model_name' = r.name
                       /\ pc' = "resolved"
                       /\ UNCHANGED <<stderr, exitStatus, ended_by>>
                  ELSE /\ stderr' = Append(stderr, OutText("model_error", r.msg))
                       /\ Exit("1", r.kind)
                       /\ UNCHANGED model_name
    /\ UNCHANGED <<environ, api_key, session, inputs, sends, stdout, cmVars, fmtVars>>

-----------------------------------------------------------------------------
(* run_chat_loop: the model object, the banner, the session                *)

Banner == <<Out("banner_title"), Out("banner_help"), Out("banner_rule")>>
Loop_open_with_default_model ==
    /\ pc = "resolved"
    /\ calls' = calls \o <<"GenerativeModel", "start_chat">>
    /\ stdout' = stdout \o Banner
    /\ session' = [open |-> TRUE, model |-> DEFAULT_PREFERRED,
                   instruction |-> PERSONA, history |-> <<>>]
    /\ pc' = "awaiting"
    /\ UNCHANGED <<stderr, exitStatus, ended_by>>
    /\ UNCHANGED <<environ, api_key, listing, model_name, inputs, sends, cmVars, fmtVars>>

Loop_open ==
    /\ pc = "resolved"
    /\ \/ \* GenerativeModel(...) raises: main() reports it and exits 1
          /\ calls' = Append(calls, "GenerativeModel")
          /\ stderr' = Append(stderr, Out("unexpected_error"))
          /\ Exit("1", "setup_error")
          /\ UNCHANGED <<session, stdout>>
       \/ \* start_chat(...) raises, after the banner
          /\ calls' = calls \o <<"GenerativeModel", "start_chat">>
          /\ stdout' = stdout \o Banner
          /\ stderr' = Append(stderr, Out("unexpected_error"))
          /\ Exit("1", "setup_error")
          /\ UNCHANGED session
       \/ /\ calls' = calls \o <<"GenerativeModel", "start_chat">>
          /\ stdout' = stdout \o Banner
          /\ session' = [open |-> TRUE, model |-> model_name,
                         instruction |-> PERSONA, history |-> <<>>]
          /\ pc' = "awaiting"
          /\ UNCHANGED <<stderr, exitStatus, ended_by>>
    /\ UNCHANGED <<environ, api_key, listing, model_name, inputs, sends, cmVars, fmtVars>>

-----------------------------------------------------------------------------
(* run_chat_loop: reading a line                                           *)

NewSend(msg) == [msg |-> msg, outcome |-> "in_flight", raw |-> <<>>]

Loop_read_sends_blank_lines ==
    /\ pc = "awaiting"
    /\ Len(inputs) < MaxReads
    /\ \E line \in InputLines :
         LET user_question == strip(line)
         IN  /\ inputs' = Append(inputs, line)
             /\ IF lower(user_question) \in EXIT_WORDS
                  THEN /\ stdout' = stdout \o <<Out("prompt"), Out("goodbye")>>
                       /\ Exit("0", "exit_word")
                       /\ UNCHANGED <<sends, calls>>
                  ELSE /\ stdout' = Append(stdout, Out("prompt"))
                       /\ sends' = Append(sends, NewSend(user_question))
                       /\ calls' = Append(calls, "send_message")
                       /\ pc' = "dispatching"
                       /\ UNCHANGED <<exitStatus, ended_by>>
    /\ UNCHANGED <<environ, api_key, listing, model_name, session, stderr, cmVars, fmtVars>>

Loop_read ==
    /\ pc = "awaiting"
    /\ Len(inputs) < MaxReads
    /\ \E line \in InputLines :
         LET user_question == strip(line)
         IN  /\ inputs' = Append(inputs, line)
             /\ IF user_question = <<>>
                  THEN /\ stdout' = Append(stdout, Out("prompt"))
                       /\ UNCHANGED <<sends, calls, pc, exitStatus, ended_by>>
                  ELSE IF lower(user_question) \in EXIT_WORDS
                  THEN /\ stdout' = stdout \o <<Out("prompt"), Out("goodbye")>>
                       /\ Exit("0", "exit_word")
                       /\ UNCHANGED <<sends, calls>>
                  ELSE /\ stdout' = Append(stdout, Out("prompt"))
                       /\ sends' = Append(sends, NewSend(user_question))
                       /\ calls' = Append(calls, "send_message")
                       /\ pc' = "dispatching"
                       /\ UNCHANGED <<exitStatus, ended_by>>
    /\ UNCHANGED <<environ, api_key, listing, model_name, session, stderr, cmVars, fmtVars>>

\* input() raises EOFError: caught, farewell, the loop ends and main() returns.
Loop_eof ==
    /\ pc = "awaiting"
    /\ stdout' = stdout \o <<Out("prompt"), Out("goodbye")>>
    /\ Exit("0", "end_of_input")
    /\ UNCHANGED <<environ, api_key, listing, model_name, session, calls, inputs,
                   sends, stderr, cmVars, fmtVars>>

\* input() raises another exception: nothing in the loop catches it, main()
\* reports it and exits 1.
Loop_read_error ==
    /\ pc = "awaiting"
    /\ stdout' = Append(stdout, Out("prompt"))
    /\ stderr' = Append(stderr, Out("unexpected_error"))
    /\ Exit("1", "read_error")
    /\ UNCHANGED <<environ, api_key, listing, model_name, session, calls, inputs,
                   sends, cmVars, fmtVars>>

\* KeyboardInterrupt.  In input() it is caught like end-of-input.  During
\* send_message it is no Exception: neither the loop's handler nor main()'s
\* catches it, and the interpreter ends with a traceback, killed by SIGINT.
Loop_interrupt ==
    /\ pc \in {"awaiting", "dispatching"}
    /\ IF pc = "awaiting"
         THEN /\ stdout' = stdout \o <<Out("prompt"), Out("goodbye")>>
              /\ Exit("0", "interrupt")
              /\ UNCHANGED <<sends, stderr>>
         ELSE /\ sends' = SetLast(sends, [sends[Len(sends)] EXCEPT !.outcome = "abandoned"])
              /\ stderr' = Append(stderr, Out("traceback"))
              /\ Exit("SIGINT", "interrupt")
              /\ UNCHANGED stdout
    /\ UNCHANGED <<environ, api_key, listing, model_name, session, calls, inputs,
                   cmVars, fmtVars>>

-----------------------------------------------------------------------------
(* run_chat_loop: the send and its outcomes                                *)

\* print("\n--- Answer ---"); print(to_markdown(response.text)); print("---------------\n")
display_unformatted(out, text) ==
    out \o <<Out("answer_header"), OutText("answer", text), Out("answer_footer")>>

display_formatted_twice(out, text) ==
    out \o <<Out("answer_header"), OutText("answer", to_markdown(to_markdown(text))),
             Out("answer_footer")>>

display(out, text) ==
    out \o <<Out("answer_header"), OutText("answer", to_markdown(text)), Out("answer_footer")>>
Remember_last_turn_only(s, msg, raw) ==
    [s EXCEPT !.history = <<[role |-> "user", text |-> msg],
                            [role |-> "model", text |-> raw]>>]

\* The chat session keeps the message and its reply.
Remember(s, msg, raw) ==
    [s EXCEPT !.history = @ \o <<[role |-> "user", text |-> msg],
                                 [role |-> "model", text |-> raw]>>]
Send_ok_then_leaves ==
    /\ pc = "dispatching"
    /\ \E raw \in RawReplies :
         LET this == sends[Len(sends)]
         IN  /\ sends' = SetLast(sends, [this EXCEPT !.outcome = "replied", !.raw = raw])
             /\ session' = Remember(session, this.msg, raw)
             /\ stdout' = Append(display(stdout, raw), Out("goodbye"))
    /\ Exit("0", "exit_word")
    /\ UNCHANGED <<environ, api_key, listing, model_name, calls, inputs, stderr,
                   cmVars, fmtVars>>

Send_ok ==
    /\ pc = "dispatching"
    /\ \E raw \in RawReplies :
         LET this == sends[Len(sends)]
         IN  /\ sends' = SetLast(sends, [this EXCEPT !.outcome = "replied", !.raw = raw])
             /\ session' = Remember(session, this.msg, raw)
             /\ stdout' = display(stdout, raw)
    /\ pc' = "awaiting"
    /\ UNCHANGED <<environ, api_key, listing, model_name, calls, inputs, stderr,
                   exitStatus, ended_by, cmVars, fmtVars>>

\* send_message returned, and reading, formatting or printing the reply
\* raises: the header is out already, the loop's handler reports the error.
Reply_error ==
    /\ pc = "dispatching"
    /\ \E raw \in RawReplies :
         LET this == sends[Len(sends)]
         IN  /\ sends' = SetLast(sends, [this EXCEPT !.outcome = "replied_unshown", !.raw = raw])
             /\ session' = Remember(session, this.msg, raw)
    /\ stdout' = Append(stdout, Out("answer_header"))
    /\ stderr' = Append(stderr, Out("send_error"))
    /\ pc' = "awaiting"
    /\ UNCHANGED <<environ, api_key, listing, model_name, calls, inputs,
                   exitStatus, ended_by, cmVars, fmtVars>>
Send_error_unreported ==
    /\ pc = "dispatching"
    /\ sends' = SetLast(sends, [sends[Len(sends)] EXCEPT !.outcome = "failed"])
    /\ pc' = "awaiting"
    /\ UNCHANGED <<environ, api_key, listing, model_name, session, calls, inputs,
                   stdout, stderr, exitStatus, ended_by, cmVars, fmtVars>>

Send_error_ends_the_process ==
    /\ pc = "dispatching"
    /\ sends' = SetLast(sends, [sends[Len(sends)] EXCEPT !.outcome = "failed"])
    /\ stderr' = Append(stderr, Out("unexpected_error"))
    /\ Exit("1", "send_error")
    /\ UNCHANGED <<environ, api_key, listing, model_name, session, calls, inputs,
                   stdout, cmVars, fmtVars>>

\* send_message raises an Exception: reported on stderr, the loop goes on.
Send_error ==
    /\ pc = "dispatching"
    /\ sends' = SetLast(sends, [sends[Len(sends)] EXCEPT !.outcome = "failed"])
    /\ stderr' = Append(stderr, Out("send_error"))
    /\ pc' = "awaiting"
    /\ UNCHANGED <<environ, api_key, listing, model_name, session, calls, inputs,
                   stdout, exitStatus, ended_by, cmVars, fmtVars>>

-----------------------------------------------------------------------------
(* main()                                                                  *)

Init ==
    /\ \E env \in Environments : MainStart(env)
    /\ ChooseIdle
    /\ FmtIdle

Next ==
    \/ Main_configure
    \/ Main_choose_model
    \/ Loop_open
    \/ Loop_read
    \/ Loop_eof
    \/ Loop_read_error
    \/ Loop_interrupt
    \/ Send_ok
    \/ Reply_error
    \/ Send_error

Spec == Init /\ [][Next]_vars

-----------------------------------------------------------------------------
(* What the claims speak of, stated on the text itself                     *)

Min(S) == CHOOSE i \in S : \A j \in S : i <= j
Max(S) == CHOOSE i \in S : \A j \in S : i >= j

\* The line without its leading and trailing blanks.
Core(line) ==
    LET inked == {i \in DOMAIN line : line[i] \notin {" ", "\t", NL, CR}}
    IN  IF inked = {} THEN <<>> ELSE SubSeq(line, Min(inked), Max(inked))

CasePairs ==
    {<<"E", "e">>, <<"X", "x">>, <<"I", "i">>, <<"T", "t">>, <<"Q", "q">>, <<"U", "u">>}

SameIgnoringCase(a, b) ==
    /\ Len(a) = Len(b)
    /\ \A i \in DOMAIN a : a[i] = b[i] \/ <<a[i], b[i]>> \in CasePairs

IsBlankLine(line) == Core(line) = <<>>

IsExitLine(line) ==
    \/ SameIgnoringCase(Core(line), <<"e", "x", "i", "t">>)
    \/ SameIgnoringCase(Core(line), <<"q", "u", "i", "t">>)

IsQuestion(line) == ~IsBlankLine(line) /\ ~IsExitLine(line)

IsSendCall(c) == c = "send_message"
IsAnswer(o) == o.kind = "answer"
IsAnswerHeader(o) == o.kind = "answer_header"
WasShown(t) == t.outcome = "replied"
WasReceived(t) == t.outcome \in {"replied", "replied_unshown"}

-----------------------------------------------------------------------------
\* C1: every line read that is neither blank nor an exit word caused exactly
\* one send_message call, carrying the stripped line, and blank lines caused
\* none: the sends are, in order, the stripped questions read so far.
C1_OneSendPerQuestion ==
    LET questions == SelectSeq(inputs, IsQuestion)
    IN  /\ Len(sends) = Len(questions)
        /\ Len(SelectSeq(calls, IsSendCall)) = Len(questions)
        /\ \A i \in DOMAIN sends : sends[i].msg = Core(questions[i])

C1_Witness ==
    /\ Len(inputs) = 3
    /\ inputs[1] = <<" ", " ">>
    /\ inputs[2] = <<" ", "h", "i", " ">>
    /\ inputs[3] = <<>>
    /\ Len(sends) = 1
    /\ sends[1].msg = <<"h", "i">>

\* C2: a line that is "exit" or "quit" in any letter case, blanks around it
\* ignored, is the last line read: no send is issued for it, the farewell is
\* the last thing printed and the process has ended with exit code 0,
\* whatever turns came before.
C2_ExitWordEndsTheLoop ==
    \A i \in DOMAIN inputs :
        IsExitLine(inputs[i]) =>
            /\ i = Len(inputs)
            /\ pc = "done"
            /\ exitStatus = "0"
            /\ stdout[Len(stdout)].kind = "goodbye"
            /\ Len(sends) = Len(SelectSeq(SubSeq(inputs, 1, i - 1), IsQuestion))
            /\ \A k \in DOMAIN sends : sends[k].outcome # "in_flight"

C2_Witness ==
    /\ Len(inputs) = 3
    /\ inputs[3] = <<" ", " ", "Q", "U", "I", "T", " ", " ">>
    /\ Len(sends) = 2
    /\ sends[1].outcome = "failed"
    /\ sends[2].outcome = "replied"
    /\ exitStatus = "0"

\* C3: a step in which send_message fails leaves the process running and the
\* loop awaiting input, reports the error on the diagnostic stream, prints
\* nothing and leaves the session as it was.
C3_SendFailureIsLocal ==
    [][(pc = "dispatching" /\ Len(sends') = Len(sends)
            /\ sends'[Len(sends)].outcome = "failed")
        => /\ pc' = "awaiting"
           /\ exitStatus' = "none"
           /\ stderr' = Append(stderr, Out("send_error"))
           /\ stdout' = stdout
           /\ session' = session]_vars

\* a failed turn, then a question that is sent once, answered and displayed
C3_Witness ==
    /\ Len(sends) = 2
    /\ Len(inputs) = 2
    /\ sends[1].outcome = "failed"
    /\ sends[2].outcome = "replied"
    /\ session.open
    /\ stdout[Len(stdout) - 1] = OutText("answer", to_markdown(sends[2].raw))
    /\ exitStatus = "none"

\* C4: with the credential variable unset or empty, no SDK call is ever made
\* (no configuration with a key, no listing, no session, no send) and, once
\* main() has moved, the process has exited with code 1.
C4_NoCredentialNoCalls ==
    (~environ.present \/ environ.value = <<>>) =>
        /\ calls = <<>>
        /\ ~api_key.set
        /\ listing = NotListed
        /\ ~session.open
        /\ sends = <<>>
        /\ pc \in {"start", "done"}
        /\ pc = "done" => exitStatus = "1" /\ ended_by = "config_error"

C4_Witness ==
    /\ environ.present
    /\ environ.value = <<>>
    /\ exitStatus = "1"

\* C5: choose_model returns preferred when it is in the available list; else
\* the first of gemini-2.5-flash, gemini-2.5-flash-lite, gemini-flash-latest
\* that is in the list; and whatever it returns is in the list.
C5_SelectionOrder ==
    (cm_pc = "returned" /\ cm_available.state = "ok") =>
        LET avail == Range(cm_available.names)
            order == <<"gemini-2.5-flash", "gemini-2.5-flash-lite", "gemini-flash-latest">>
        IN  /\ cm_preferred \in avail => cm_result = Returned(cm_preferred)
            /\ cm_preferred \notin avail =>
                 \A i \in 1..3 :
                    (order[i] \in avail /\ \A j \in 1..(i - 1) : order[j] \notin avail)
                        => cm_result = Returned(order[i])
            /\ cm_result.kind = "ok" => cm_result.name \in avail

\* preferred and two fallbacks are available: preferred wins
C5_Witness ==
    /\ cm_pc = "returned"
    /\ cm_preferred = "gemini-pro"
    /\ cm_available.names = <<"gemini-2.5-flash-lite", "gemini-2.5-flash", "gemini-pro">>
    /\ cm_result = Returned("gemini-pro")

\* C6: when the listing succeeded, choose_model fails exactly when the list
\* holds neither preferred nor a fallback candidate (so on the empty list
\* too), that failure happens in no other case, and its message contains
\* every name of the list.
C6_UnavailableListsAll ==
    cm_pc = "returned" =>
        LET avail == Range(cm_available.names)
            none == /\ cm_preferred \notin avail
                    /\ "gemini-2.5-flash" \notin avail
                    /\ "gemini-2.5-flash-lite" \notin avail
                    /\ "gemini-flash-latest" \notin avail
        IN  /\ cm_result.kind = "unavailable" <=> (cm_available.state = "ok" /\ none)
            /\ cm_available.state = "ok" => (cm_result.kind # "ok" <=> none)
            /\ cm_result.kind = "unavailable" => avail \subseteq Range(cm_result.msg)

C6_Witness ==
    /\ cm_pc = "returned"
    /\ cm_preferred = "gemini-flash-latest"
    /\ cm_available = ListingOk(<<"models/gemini-flash-latest", "gemini-pro">>)
    /\ cm_result.kind = "unavailable"
    /\ {"models/gemini-flash-latest", "gemini-pro"} \subseteq Range(cm_result.msg)

\* C7: an interrupt in any loop state, awaiting input or with a send in
\* flight, and likewise end-of-input, ends the process with exit code 0.
C7_InterruptExitsZero ==
    ended_by \in {"interrupt", "end_of_input"} => (pc = "done" /\ exitStatus = "0")

\* C8: when the listing query fails or the list holds no acceptable model,
\* the process has exited with code 1 with no session, no banner, no input
\* read and no send; and the loop is entered only with the key configured
\* first and the model resolved from the listing second.
C8_StartupErrorsAbort ==
    LET avail == Range(listing.names)
        acceptable ==
            /\ listing.state = "ok"
            /\ avail \cap {"gemini-flash-latest", "gemini-2.5-flash", "gemini-2.5-flash-lite"} # {}
    IN  /\ (listing.state # "unqueried" /\ ~acceptable) =>
              /\ pc = "done"
              /\ exitStatus = "1"
              /\ ~session.open
              /\ stdout = <<>>
              /\ inputs = <<>>
              /\ sends = <<>>
              /\ calls = <<"configure", "list_models">>
        /\ (pc \in {"awaiting", "dispatching"} \/ session.open \/ inputs # <<>> \/ stdout # <<>>) =>
              /\ api_key.set
              /\ acceptable
              /\ model_name \in avail
              /\ SubSeq(calls, 1, 2) = <<"configure", "list_models">>

C8_Witness ==
    /\ listing = ListingOk(<<"gemini-pro", "models/gemini-flash-latest">>)
    /\ pc = "done"
    /\ exitStatus = "1"
    /\ stderr[1].kind = "model_error"

\* The text with every bullet glyph written as two blanks and an asterisk and
\* "> " put before the first character of every line, read left to right.
RECURSIVE Quoted(_, _)
Quoted(text, atLineStart) ==
    IF text = <<>> THEN <<>>
    ELSE LET c == Head(text)
         IN  (IF atLineStart THEN <<">", " ">> ELSE <<>>)
                \o (IF c = Bullet THEN <<" ", " ", "*">> ELSE <<c>>)
                \o Quoted(Tail(text), c = NL)

\* C9: to_markdown returns the text with each bullet glyph replaced by "  *"
\* and every line, the first and the blank ones too, prefixed with "> ";
\* and to_markdown("* a\n* b"), with bullet glyphs for the asterisks, is
\* ">   * a\n>   * b".
C9_QuotesEveryLine ==
    fmt_pc = "returned" =>
        /\ fmt_out = Quoted(fmt_text, TRUE)
        /\ fmt_text = <<Bullet, " ", "a", NL, Bullet, " ", "b">> =>
              fmt_out = <<">", " ", " ", " ", "*", " ", "a", NL,
                          ">", " ", " ", " ", "*", " ", "b">>

C9_Witness ==
    /\ fmt_pc = "returned"
    /\ fmt_text = <<Bullet, " ", "a", NL, Bullet, " ", "b">>
    /\ fmt_out = <<">", " ", " ", " ", "*", " ", "a", NL, ">", " ", " ", " ", "*", " ", "b">>

\* C10: the reply texts on standard output are, in order, the formatter
\* applied once to the raw reply of each send that succeeded and was shown;
\* an answer header appears only for a send that returned a reply, so a
\* failed send displays nothing as an answer.
C10_DisplayedOnceFormatted ==
    LET answers == SelectSeq(stdout, IsAnswer)
        shown == SelectSeq(sends, WasShown)
    IN  /\ Len(answers) = Len(shown)
        /\ \A i \in DOMAIN answers : answers[i].text = to_markdown(shown[i].raw)
        /\ Len(SelectSeq(stdout, IsAnswerHeader)) = Len(SelectSeq(sends, WasReceived))

C10_Witness ==
    /\ Len(sends) = 2
    /\ sends[1].outcome = "failed"
    /\ sends[2].outcome = "replied"
    /\ sends[2].raw = SampleReply
    /\ Len(SelectSeq(stdout, IsAnswer)) = 1
    /\ stdout[Len(stdout) - 1].text
         = <<">", " ", " ", " ", "*", " ", "a", NL, ">", " ", " ", " ", "*", " ", "b">>

IsModelObject(c) == c = "GenerativeModel"
IsSessionStart(c) == c = "start_chat"

\* C11: the session is created at most once, before any input is read, with
\* the name choose_model returned for the provider's listing and the persona
\* instruction; and once it is open no step closes it or changes its model or
\* its instruction.
C11_OneSessionOneModel ==
    /\ [](/\ Len(SelectSeq(calls, IsModelObject)) <= 1
          /\ Len(SelectSeq(calls, IsSessionStart)) <= 1
          /\ (inputs # <<>> \/ sends # <<>> \/ pc \in {"awaiting", "dispatching"})
                => session.open
          /\ session.open =>
                /\ Len(SelectSeq(calls, IsSessionStart)) = 1
                /\ session.model = choose_model("gemini-flash-latest", listing).name
                /\ session.model = model_name
                /\ session.instruction = PERSONA)
    /\ [][session.open =>
            /\ session'.open
            /\ session'.model = session.model
            /\ session'.instruction = session.instruction]_vars

\* a session bound to a fallback model, after three lines were read
C11_Witness ==
    /\ session.open
    /\ session.model = "gemini-2.5-flash-lite"
    /\ Len(inputs) = 3
    /\ Len(session.history) = 4

Turn(t) == <<[role |-> "user", text |-> t.msg], [role |-> "model", text |-> t.raw]>>

HasEnded(t) == t.outcome \in {"replied", "replied_unshown", "failed"}

IsPrefix(a, b) == Len(a) <= Len(b) /\ SubSeq(b, 1, Len(a)) = a

C13_OtherFailuresAreFatal ==
    /\ ended_by = "read_error" => (pc = "done" /\ exitStatus = "1")
    /\ \A k \in DOMAIN sends :
          sends[k].outcome = "replied_unshown" =>
              (pc = "done" /\ exitStatus = "1" /\ k = Len(sends))

IsInFlight(t) == t.outcome = "in_flight"
IsSendReport(o) == o.kind = "send_error"
IsReported(t) == t.outcome \in {"failed", "replied_unshown"}

\* C14: at most one send is in flight, it is the last one and the loop is
\* then dispatching; every earlier send has ended once, by a reply that is
\* displayed or by a failure that is reported; and a line is read only when
\* no send is in flight.
C14_OneSendAtATime ==
    /\ [](/\ Len(SelectSeq(sends, IsInFlight)) <= 1
          /\ \A k \in DOMAIN sends :
                /\ sends[k].outcome = "in_flight" <=> (k = Len(sends) /\ pc = "dispatching")
                /\ k < Len(sends) => HasEnded(sends[k])
          /\ Len(SelectSeq(stdout, IsAnswer)) = Len(SelectSeq(sends, WasShown))
          /\ Len(SelectSeq(stderr, IsSendReport)) = Len(SelectSeq(sends, IsReported)))
    /\ [][inputs' # inputs =>
            /\ pc = "awaiting"
            /\ \A k \in DOMAIN sends : HasEnded(sends[k])]_vars

\* a failure reported and a reply displayed, then a third line read and sent
C14_Witness ==
    /\ Len(sends) = 3
    /\ sends[1].outcome = "failed"
    /\ sends[2].outcome = "replied"
    /\ sends[3].outcome = "in_flight"
    /\ pc = "dispatching"
    /\ Len(SelectSeq(stderr, IsSendReport)) = 1

\* The loop is Terminated when it was left with the farewell and main()
\* returned.
Terminated == pc = "done" /\ exitStatus = "0"

\* C15: the loop becomes Terminated only from awaiting input, and only by an
\* exit word, end-of-input or an interrupt; a blank line leaves it awaiting
\* input; and a send that returns, with a reply or a failure, puts the loop
\* back to awaiting input with the process running.
C15_EndsOnlyWhenAsked ==
    /\ [][(~Terminated /\ Terminated') =>
            /\ pc = "awaiting"
            /\ ended_by' \in {"exit_word", "end_of_input", "interrupt"}
            /\ sends' = sends
            /\ (inputs' # inputs => IsExitLine(inputs'[Len(inputs')]))]_vars
    /\ [][(inputs' # inputs /\ IsBlankLine(inputs'[Len(inputs')])) =>
            (pc' = "awaiting" /\ exitStatus' = "none")]_vars
    /\ [][(pc = "dispatching" /\ HasEnded(sends'[Len(sends)])) =>
            (pc' = "awaiting" /\ exitStatus' = "none")]_vars

\* two turns (one failed) and a blank line, and the loop still awaits input
C15_Witness ==
    /\ Len(inputs) = 3
    /\ IsBlankLine(inputs[2])
    /\ Len(sends) = 2
    /\ sends[1].outcome = "failed"
    /\ sends[2].outcome = "replied"
    /\ pc = "awaiting"
    /\ exitStatus = "none"

\* C16: the outcome of choose_model depends only on preferred and on the set
\* of available names: every other listing with the same names, in another
\* order or with names repeated, gives the same returned name, or fails too.
C16_OrderDoesNotMatter ==
    (cm_pc = "returned" /\ cm_available.state = "ok") =>
        \A other \in ProviderOutcomes :
            (other.state = "ok" /\ Range(other.names) = Range(cm_available.names)) =>
                LET r == choose_model(cm_preferred, other)
                IN  /\ r.kind = cm_result.kind
                    /\ r.name = cm_result.name

\* two fallbacks listed in the reverse of their priority, one of them twice
C16_Witness ==
    /\ cm_pc = "returned"
    /\ cm_preferred = "gemini-pro"
    /\ cm_available.names = <<"gemini-2.5-flash-lite", "gemini-2.5-flash", "gemini-2.5-flash-lite">>
    /\ cm_result = Returned("gemini-2.5-flash")

\* C17: a name choose_model returns when preferred is not available differs
\* from preferred; with preferred "gemini-flash-latest" it is
\* gemini-2.5-flash when that is available and gemini-2.5-flash-lite
\* otherwise, never the third fallback.
C17_FallbackDiffersFromPreferred ==
    (/\ cm_pc = "returned"
     /\ cm_available.state = "ok"
     /\ cm_preferred \notin Range(cm_available.names)
     /\ cm_result.kind = "ok") =>
        /\ cm_result.name # cm_preferred
        /\ cm_preferred = "gemini-flash-latest" =>
              /\ cm_result.name \in {"gemini-2.5-flash", "gemini-2.5-flash-lite"}
              /\ "gemini-2.5-flash" \in Range(cm_available.names)
                    => cm_result.name = "gemini-2.5-flash"

C17_Witness ==
    /\ cm_pc = "returned"
    /\ cm_preferred = "gemini-flash-latest"
    /\ cm_available.names = <<"gemini-2.5-flash-lite", "models/gemini-flash-latest">>
    /\ cm_result = Returned("gemini-2.5-flash-lite")

Bullets(text) == Cardinality({i \in DOMAIN text : text[i] = Bullet})

\* Where character i of the text starts in the text with every bullet
\* written as k characters.
Place(text, i, k) == i + (k - 1) * Bullets(SubSeq(text, 1, i - 1))

\* C18 as stated: the marker is one blank and an asterisk, and the text
\* before line prefixing is one character longer per bullet glyph.
C18_MarkerOfTwoCharacters ==
    fmt_pc = "returned" =>
        /\ Len(fmt_replaced) = Len(fmt_text) + Bullets(fmt_text)
        /\ \A i \in DOMAIN fmt_text :
              fmt_text[i] = Bullet =>
                  SubSeq(fmt_replaced, Place(fmt_text, i, 2), Place(fmt_text, i, 2) + 1)
                      = <<" ", "*">>

\* C18, amended: the marker is two blanks and an asterisk, every other
\* character is kept, and the text before line prefixing is two characters
\* longer per bullet glyph.
C18_MarkerOfThreeCharacters ==
    fmt_pc = "returned" =>
        /\ Len(fmt_replaced) = Len(fmt_text) + 2 * Bullets(fmt_text)
        /\ Bullets(fmt_replaced) = 0
        /\ \A i \in DOMAIN fmt_text :
              LET p == Place(fmt_text, i, 3)
              IN  IF fmt_text[i] = Bullet
                    THEN SubSeq(fmt_replaced, p, p + 2) = <<" ", " ", "*">>
                    ELSE fmt_replaced[p] = fmt_text[i]

C18_Witness ==
    /\ fmt_pc = "returned"
    /\ fmt_text = <<Bullet, "a", Bullet>>
    /\ fmt_replaced = <<" ", " ", "*", "a", " ", " ", "*">>

====
